---- MODULE Spec2Model ----
(***************************************************************************)
(* Klotski solver: bit-packed board, symmetry-folded board keys, the       *)
(* three-generation visited history and the breadth-first path finder.     *)
(***************************************************************************)
EXTENDS Integers, Sequences, FiniteSets, TLC

(***************************************************************************)
(* u16 arithmetic.  A row of the board is one u16 holding four 4-bit       *)
(* cells; the bitwise operators are evaluated nibble by nibble.            *)
(***************************************************************************)
Bit(x, i) == (x \div (2 ^ i)) % 2

AndNibble ==
  [x \in 0..15 |-> [y \in 0..15 |->
     Bit(x, 0) * Bit(y, 0) + 2 * (Bit(x, 1) * Bit(y, 1))
     + 4 * (Bit(x, 2) * Bit(y, 2)) + 8 * (Bit(x, 3) * Bit(y, 3))]]

XorNibble ==
  [x \in 0..15 |-> [y \in 0..15 |->
     ((Bit(x, 0) + Bit(y, 0)) % 2) + 2 * ((Bit(x, 1) + Bit(y, 1)) % 2)
     + 4 * ((Bit(x, 2) + Bit(y, 2)) % 2) + 8 * ((Bit(x, 3) + Bit(y, 3)) % 2)]]

Nib(x, k) == (x \div (16 ^ k)) % 16

And16(a, b) ==
  AndNibble[Nib(a, 0)][Nib(b, 0)] + 16 * AndNibble[Nib(a, 1)][Nib(b, 1)]
  + 256 * AndNibble[Nib(a, 2)][Nib(b, 2)] + 4096 * AndNibble[Nib(a, 3)][Nib(b, 3)]

Xor16(a, b) ==
  XorNibble[Nib(a, 0)][Nib(b, 0)] + 16 * XorNibble[Nib(a, 1)][Nib(b, 1)]
  + 256 * XorNibble[Nib(a, 2)][Nib(b, 2)] + 4096 * XorNibble[Nib(a, 3)][Nib(b, 3)]

Not16(a) == 65535 - a

Or16(a, b) == a + b - And16(a, b)

Shl16(a, n) == (a * (2 ^ n)) % 65536

Shr16(a, n) == a \div (2 ^ n)

(***************************************************************************)
(* Direction                                                               *)
(***************************************************************************)
Up == "Up"
Down == "Down"
Left == "Left"
Right == "Right"

ALL_DIRECTIONS == <<Up, Down, Left, Right>>

\* reversed that gives the direction back
reversed_same(d) == d

reversed(d) ==
  CASE d = Up -> Down
    [] d = Down -> Up
    [] d = Left -> Right
    [] d = Right -> Left

(***************************************************************************)
(* BitPattern: array of SIZE rows, row 1 is the top row.                   *)
(***************************************************************************)
SIZE == 5

BitPatternNew(r1, r2, r3, r4, r5) == <<r1, r2, r3, r4, r5>>

is_empty(p) == \A i \in 1..SIZE : p[i] = 0

is_not_empty(p) == ~is_empty(p)

moved_up(p) == [i \in 1..SIZE |-> IF i < SIZE THEN p[i + 1] ELSE 0]

moved_down(p) == [i \in 1..SIZE |-> IF i > 1 THEN p[i - 1] ELSE 0]

\* rotate_left(4) in place of << 4: the leftmost cell re-enters on the right
moved_left_rotating(p) == [i \in 1..SIZE |-> Shl16(p[i], 4) + Shr16(p[i], 12)]

moved_left(p) == [i \in 1..SIZE |-> Shl16(p[i], 4)]

moved_right(p) == [i \in 1..SIZE |-> Shr16(p[i], 4)]

moved(p, direction) ==
  CASE direction = Up -> moved_up(p)
    [] direction = Down -> moved_down(p)
    [] direction = Left -> moved_left(p)
    [] direction = Right -> moved_right(p)

\* swap_bytes in place of the four-cell reversal
mirrored_u16_bytes(data) == Shl16(data, 8) + Shr16(data, 8)

mirrored_u16(data) ==
  Or16(Or16(And16(Shl16(data, 12), \hf000), And16(Shl16(data, 4), \h0f00)),
       Or16(And16(Shr16(data, 4), \h00f0), And16(Shr16(data, 12), \h000f)))

mirrored(p) == [i \in 1..SIZE |-> mirrored_u16(p[i])]

\* the second fold without its mask: bits of the cell to the left leak in
mask_of_piece_u16_unmasked(data, id) ==
  LET m0 == Xor16(data, id * \h1111)
      m1 == And16(Or16(Shr16(m0, 1), m0), \h5555)
      m2 == Or16(Shr16(m1, 2), m1)
      m3 == Or16(m2, Shl16(m2, 1))
      m4 == Or16(m3, Shl16(m3, 2))
  IN  Not16(m4)

mask_of_piece_u16(data, id) ==
  LET fold(mask, n, keep) == And16(Or16(Shr16(mask, n), mask), keep)
      spread(mask, n) == Or16(mask, Shl16(mask, n))
  IN  Not16(spread(spread(fold(fold(Xor16(data, id * \h1111), 1, \h5555),
                                    2, \h1111), 1), 2))

mask_of(p, id) == [i \in 1..SIZE |-> mask_of_piece_u16(p[i], id)]

RECURSIVE symmetrized_loop(_, _, _, _)
symmetrized_loop(data, pairs, k, result) ==
  IF k > Len(pairs) THEN result
  ELSE LET piece_a == pairs[k][1]
           piece_b == pairs[k][2]
           swap_pattern == Xor16(piece_a, piece_b) * \h1111
           mask_a == mask_of_piece_u16(data, piece_a)
           mask_b == mask_of_piece_u16(data, piece_b)
       IN  symmetrized_loop(data, pairs, k + 1,
                            Xor16(result, And16(Or16(mask_a, mask_b), swap_pattern)))

\* only the first pair of the list is swapped
symmetrized_u16_first_pair(data, pairs) ==
  IF pairs = <<>> THEN data ELSE symmetrized_loop(data, <<pairs[1]>>, 1, data)

\* result = data ^ ... in place of result ^= ...: only the last pair is swapped
symmetrized_u16_last_pair(data, pairs) ==
  IF pairs = <<>> THEN data
  ELSE symmetrized_loop(data, <<pairs[Len(pairs)]>>, 1, data)

symmetrized_u16(data, pairs) == symmetrized_loop(data, pairs, 1, data)

symmetrized(p, pairs) == [i \in 1..SIZE |-> symmetrized_u16(p[i], pairs)]

BitAnd(a, b) == [i \in 1..SIZE |-> And16(a[i], b[i])]

BitOr(a, b) == [i \in 1..SIZE |-> Or16(a[i], b[i])]

BitNot(a) == [i \in 1..SIZE |-> Not16(a[i])]

\* derived Ord on [u16; SIZE]: lexicographic from the top row
RECURSIVE LessFrom(_, _, _)
LessFrom(a, b, i) ==
  IF i > SIZE THEN FALSE
  ELSE IF a[i] # b[i] THEN a[i] < b[i]
  ELSE LessFrom(a, b, i + 1)

BitPatternLess(a, b) == LessFrom(a, b, 1)

(***************************************************************************)
(* Board                                                                   *)
(***************************************************************************)
EDGE_TOP == BitPatternNew(\hffff, 0, 0, 0, 0)
EDGE_BOTTOM == BitPatternNew(0, 0, 0, 0, \hffff)
EDGE_LEFT == BitPatternNew(\hf000, \hf000, \hf000, \hf000, \hf000)
EDGE_RIGHT == BitPatternNew(\h000f, \h000f, \h000f, \h000f, \h000f)

\* Option::None of a Board
NoBoard == <<>>

\* move_piece that writes the moved mask instead of the moved piece
move_piece_mask_written(image, piece, direction) ==
  LET piece_mask == mask_of(image, piece)
      edge_mask == CASE direction = Up -> EDGE_TOP
                     [] direction = Down -> EDGE_BOTTOM
                     [] direction = Left -> EDGE_LEFT
                     [] direction = Right -> EDGE_RIGHT
      other_pieces == BitAnd(image, BitNot(piece_mask))
      moved_piece_mask == moved(piece_mask, direction)
  IN  IF is_not_empty(BitAnd(edge_mask, piece_mask)) THEN NoBoard
      ELSE IF is_not_empty(BitAnd(other_pieces, moved_piece_mask)) THEN NoBoard
      ELSE BitOr(other_pieces, moved_piece_mask)

\* move_piece without the check for a piece in the way
move_piece_unblocked(image, piece, direction) ==
  LET piece_mask == mask_of(image, piece)
      edge_mask == CASE direction = Up -> EDGE_TOP
                     [] direction = Down -> EDGE_BOTTOM
                     [] direction = Left -> EDGE_LEFT
                     [] direction = Right -> EDGE_RIGHT
      other_pieces == BitAnd(image, BitNot(piece_mask))
      target_piece == BitAnd(image, piece_mask)
      moved_target_piece == moved(target_piece, direction)
  IN  IF is_not_empty(BitAnd(edge_mask, piece_mask)) THEN NoBoard
      ELSE BitOr(other_pieces, moved_target_piece)

move_piece(image, piece, direction) ==
  LET edge_mask == CASE direction = Up -> EDGE_TOP
                     [] direction = Down -> EDGE_BOTTOM
                     [] direction = Left -> EDGE_LEFT
                     [] direction = Right -> EDGE_RIGHT
      slide(piece_mask, other_pieces) ==
        LET moved_piece_mask == moved(piece_mask, direction)
            target_piece == BitAnd(image, piece_mask)
            moved_target_piece == moved(target_piece, direction)
        IN  IF is_not_empty(BitAnd(edge_mask, piece_mask)) THEN NoBoard
            ELSE IF is_not_empty(BitAnd(other_pieces, moved_piece_mask)) THEN NoBoard
            ELSE BitOr(other_pieces, moved_target_piece)
      with_mask(piece_mask) == slide(piece_mask, BitAnd(image, BitNot(piece_mask)))
  IN  with_mask(mask_of(image, piece))

(***************************************************************************)
(* Rule                                                                    *)
(***************************************************************************)
RECURSIVE create_pieces_from(_, _)
create_pieces_from(start_board, id) ==
  IF id > 15 THEN <<>>
  ELSE (IF is_not_empty(mask_of(start_board, id)) THEN <<id>> ELSE <<>>)
       \o create_pieces_from(start_board, id + 1)

create_pieces(start_board) == create_pieces_from(start_board, 1)

SeqRange(s) == {s[i] : i \in 1..Len(s)}

\* create_pairs with the filter p <= q: a piece that mirrors itself is paired
create_pairs_set_with_self(board, goal_mask, pieces) ==
  LET ids == SeqRange(pieces)
      piece_to_mask == [p \in ids |-> mask_of(board, p)]
      mirrored_keys == {mirrored(piece_to_mask[p]) : p \in ids}
      mirrored_to_piece(m) == CHOOSE p \in ids : mirrored(piece_to_mask[p]) = m
      all_pieces_symmetric == \A p \in ids : piece_to_mask[p] \in mirrored_keys
  IN  IF goal_mask # mirrored(goal_mask) THEN {}
      ELSE IF ~all_pieces_symmetric THEN {}
      ELSE {pq \in {<<p, mirrored_to_piece(piece_to_mask[p])>> : p \in ids} :
              pq[1] <= pq[2]}

\* the pairs collected by create_pairs, as a set
create_pairs_set(board, goal_mask, pieces) ==
  LET ids == SeqRange(pieces)
      piece_to_mask == [p \in ids |-> mask_of(board, p)]
      mirrored_keys == {mirrored(piece_to_mask[p]) : p \in ids}
      mirrored_to_piece(m) == CHOOSE p \in ids : mirrored(piece_to_mask[p]) = m
      all_pieces_symmetric == \A p \in ids : piece_to_mask[p] \in mirrored_keys
  IN  IF goal_mask # mirrored(goal_mask) THEN {}
      ELSE IF ~all_pieces_symmetric THEN {}
      ELSE {pq \in {<<p, mirrored_to_piece(piece_to_mask[p])>> : p \in ids} :
              pq[1] < pq[2]}

Orderings(S) ==
  {s \in [1..Cardinality(S) -> S] : \A i, j \in 1..Cardinality(S) : s[i] = s[j] => i = j}

\* the Vec is collected in hash-map iteration order: any ordering can come out
create_pairs(board, goal_mask, pieces) ==
  Orderings(create_pairs_set(board, goal_mask, pieces))

RuleNew(start_board, goal_mask) ==
  {[start |-> start_board, pieces |-> create_pieces(start_board),
    pairs |-> prs, goal_mask |-> goal_mask] :
      prs \in create_pairs(start_board, goal_mask, create_pieces(start_board))}

is_finished(rule, board) == mask_of(board, 1) = rule.goal_mask

(***************************************************************************)
(* BoardKey                                                                *)
(***************************************************************************)
\* min that always keeps its first argument
BoardKeyMinFirst(a, b) == a

BoardKeyMin(a, b) == IF BitPatternLess(b, a) THEN b ELSE a

\* a key that looks at the large piece only
BoardKeyCreateLargeOnly(rule, board) == mask_of(board, 1)

BoardKeyCreate(rule, board) ==
  LET folded(min_image, symmetrized_image) ==
        LET min_image2 == BoardKeyMin(min_image, symmetrized_image)
            symmetrized_mirrored == mirrored(symmetrized_image)
        IN  BoardKeyMin(min_image2, symmetrized_mirrored)
      create(min_image) ==
        IF rule.pairs = <<>> THEN min_image
        ELSE folded(min_image, symmetrized(board, rule.pairs))
  IN  create(BoardKeyMin(board, mirrored(board)))

(***************************************************************************)
(* VisitedHistory                                                          *)
(***************************************************************************)
VisitedHistoryNew ==
  [current |-> {}, previous |-> {}, pre_previous |-> {}, depth |-> 0]

\* only the current generation is looked at
contains_current(h, node) == node \in h.current

contains(h, node) ==
  node \in h.current \/ node \in h.previous \/ node \in h.pre_previous

\* a window of two generations: pre_previous is never filled
advance_generation_two(h) ==
  [h EXCEPT !.pre_previous = {}, !.previous = h.current, !.current = {}]

advance_generation(h) ==
  [h EXCEPT !.pre_previous = h.previous, !.previous = h.current, !.current = {}]

\* one rotation for every level between the history's depth and the call's
RECURSIVE advance_generations(_, _)
advance_generations(h, n) ==
  IF n = 0 THEN h
  ELSE advance_generations(
         [h EXCEPT !.pre_previous = h.previous, !.previous = h.current, !.current = {}],
         n - 1)

\* try_visit that rotates once per level skipped
VisitedHistoryTryVisitPerLevel(h, node, depth) ==
  LET n == IF depth > h.depth THEN depth - h.depth ELSE h.depth - depth
      h1 == [advance_generations(h, n) EXCEPT !.depth = depth]
  IN  IF node \in h1.current \/ node \in h1.previous \/ node \in h1.pre_previous
      THEN [hist |-> h1, ret |-> FALSE]
      ELSE [hist |-> [h1 EXCEPT !.current = h1.current \cup {node}], ret |-> TRUE]

\* try_visit that rotates only when the depth grows
VisitedHistoryTryVisitForwardOnly(h, node, depth) ==
  LET h1 == IF depth > h.depth
            THEN [[h EXCEPT !.pre_previous = h.previous, !.previous = h.current,
                            !.current = {}] EXCEPT !.depth = depth]
            ELSE h
  IN  IF node \in h1.current \/ node \in h1.previous \/ node \in h1.pre_previous
      THEN [hist |-> h1, ret |-> FALSE]
      ELSE [hist |-> [h1 EXCEPT !.current = h1.current \cup {node}], ret |-> TRUE]

\* try_visit that answers but does not record the key
VisitedHistoryTryVisitNoInsert(h, node, depth) ==
  LET h1 == IF depth # h.depth
            THEN [advance_generation(h) EXCEPT !.depth = depth]
            ELSE h
  IN  [hist |-> h1, ret |-> ~contains(h1, node)]

\* try_visit that rotates but does not store the new depth
VisitedHistoryTryVisitKeepDepth(h, node, depth) ==
  LET h1 == IF depth # h.depth THEN advance_generation(h) ELSE h
  IN  IF contains(h1, node)
      THEN [hist |-> h1, ret |-> FALSE]
      ELSE [hist |-> [h1 EXCEPT !.current = h1.current \cup {node}], ret |-> TRUE]

\* returns the history after the call and the returned flag
VisitedHistoryTryVisit(h, node, depth) ==
  LET h1 == IF depth # h.depth
            THEN [advance_generation(h) EXCEPT !.depth = depth]
            ELSE h
  IN  IF contains(h1, node)
      THEN [hist |-> h1, ret |-> FALSE]
      ELSE [hist |-> [h1 EXCEPT !.current = h1.current \cup {node}], ret |-> TRUE]

(***************************************************************************)
(* Solver: State, MovePath and neighbor generation                         *)
(***************************************************************************)
\* Option<Piece>::None
NoPiece == 0

MovePathNone == <<>>
MovePathOne(d) == <<d>>
\* the two directions recorded in the wrong order
MovePathTwoSwapped(d, d2) == <<d2, d>>

MovePathTwo(d, d2) == <<d, d2>>

MkState(board, piece, path) == [board |-> board, piece |-> piece, path |-> path]

\* no second cell is ever tried
second_move_never(next_board, piece, direction, direction2) == <<>>

second_move(next_board, piece, direction, direction2) ==
  IF reversed(direction) = direction2 THEN <<>>
  ELSE LET push(next2_board) ==
             IF next2_board = NoBoard THEN <<>>
             ELSE <<MkState(next2_board, piece, MovePathTwo(direction, direction2))>>
       IN  push(move_piece(next_board, piece, direction2))

first_move(current_board, piece, direction) ==
  LET push(next_board) ==
        IF next_board = NoBoard THEN <<>>
        ELSE <<MkState(next_board, piece, MovePathOne(direction))>>
             \o second_move(next_board, piece, direction, ALL_DIRECTIONS[1])
             \o second_move(next_board, piece, direction, ALL_DIRECTIONS[2])
             \o second_move(next_board, piece, direction, ALL_DIRECTIONS[3])
             \o second_move(next_board, piece, direction, ALL_DIRECTIONS[4])
  IN  push(move_piece(current_board, piece, direction))

\* the piece of the last move is moved again
moves_of_piece_no_skip(current_state, piece) ==
  first_move(current_state.board, piece, ALL_DIRECTIONS[1])
  \o first_move(current_state.board, piece, ALL_DIRECTIONS[2])
  \o first_move(current_state.board, piece, ALL_DIRECTIONS[3])
  \o first_move(current_state.board, piece, ALL_DIRECTIONS[4])

moves_of_piece(current_state, piece) ==
  IF current_state.piece # NoPiece /\ current_state.piece = piece THEN <<>>
  ELSE first_move(current_state.board, piece, ALL_DIRECTIONS[1])
       \o first_move(current_state.board, piece, ALL_DIRECTIONS[2])
       \o first_move(current_state.board, piece, ALL_DIRECTIONS[3])
       \o first_move(current_state.board, piece, ALL_DIRECTIONS[4])

RECURSIVE get_neighbors_from(_, _, _)
get_neighbors_from(rule, current_state, k) ==
  IF k > Len(rule.pieces) THEN <<>>
  ELSE moves_of_piece(current_state, rule.pieces[k])
       \o get_neighbors_from(rule, current_state, k + 1)

get_neighbors(rule, current_state) == get_neighbors_from(rule, current_state, 1)

(***************************************************************************)
(* State of a run.  prob holds the three callbacks of find_path: either    *)
(* the closures of solve (kind "klotski") or the integer-graph closures    *)
(* with a HashSet of the engine's tests (kind "graph").                    *)
(***************************************************************************)
VARIABLES
  prob,        \* what find_path was called with
  pc,          \* position in find_path: "start", "loop", "for", "done"
  nodes,       \* the Rc<Node> cells built so far: [state, parent]
  queue,       \* VecDeque of (node, depth)
  cur,         \* (current_node, current_depth) of the while loop
  pending,     \* neighbors of the current node not yet iterated
  result,      \* the returned Option<Vec<T>>
  visited,     \* the HashSet closed over by the test try_visit
  vh,          \* the VisitedHistory closed over by solve's try_visit
  calls,       \* the callbacks that have been called so far
  accepted,    \* the states for which try_visit returned true
  vhLog,       \* the try_visit calls made directly on a VisitedHistory
  tick,        \* flips at every step find_path takes
  board,       \* the Board or BitPattern a method is called on directly
  last         \* the last call observed: a direct call with its receiver,
               \* arguments and return value, or find_path's last try_visit

vars == <<prob, pc, nodes, queue, cur, pending, result, visited, vh, calls,
          accepted, vhLog, tick, board, last>>

\* Option<Rc<Node>>::None as a parent
NoParent == 0

ResultNone == [some |-> FALSE, path |-> <<>>]
ResultSome(path) == [some |-> TRUE, path |-> path]

NoCur == [node |-> 0, depth |-> 0]

(***************************************************************************)
(* The callbacks                                                           *)
(***************************************************************************)
start_state(pr) ==
  IF pr.kind = "graph" THEN pr.start
  ELSE MkState(pr.rule.start, NoPiece, MovePathNone)

is_goal(pr, s) ==
  IF pr.kind = "graph" THEN s = pr.goal
  ELSE is_finished(pr.rule, s.board)

neighbors(pr, s) ==
  IF pr.kind = "graph" THEN pr.adj[s]
  ELSE get_neighbors(pr.rule, s)

\* try_visit mutates what it closes over; vis and hist are the values before
try_visit(pr, vis, hist, s, depth) ==
  IF pr.kind = "graph"
  THEN [visited |-> vis \cup {s}, vh |-> hist, ret |-> s \notin vis]
  ELSE LET answer(r) == [visited |-> vis, vh |-> r.hist, ret |-> r.ret]
       IN  answer(VisitedHistoryTryVisit(hist, BoardKeyCreate(pr.rule, s.board), depth))

(***************************************************************************)
(* trace_path                                                              *)
(***************************************************************************)
RECURSIVE trace_path_push(_, _)
trace_path_push(ns, node) ==
  IF node = NoParent THEN <<>>
  ELSE <<ns[node].state>> \o trace_path_push(ns, ns[node].parent)

Reverse(s) == [i \in 1..Len(s) |-> s[Len(s) + 1 - i]]

\* trace_path without the final reverse
trace_path_unreversed(ns, node) == trace_path_push(ns, node)

trace_path(ns, node) == Reverse(trace_path_push(ns, node))

(***************************************************************************)
(* find_path                                                               *)
(***************************************************************************)
START_DEPTH == 0

MkNode(state, parent) == [state |-> state, parent |-> parent]

\* queue.pop_back() in place of pop_front()
pop_back(q) == [item |-> q[Len(q)], rest |-> SubSeq(q, 1, Len(q) - 1)]

\* queue.front() in place of pop_front(): nothing leaves the queue
pop_front_peek(q) == [item |-> Head(q), rest |-> q]

\* queue.pop_front(): the element taken and what stays queued
pop_front(q) == [item |-> Head(q), rest |-> Tail(q)]

\* queue.push_front(item) in place of push_back(item)
push_front(q, item) == <<item>> \o q

\* queue.push_back(item)
push_back(q, item) == Append(q, item)

\* the start state handled without asking is_goal
StartOutcomeNoGoal(visit, goal) == IF visit THEN "enqueue" ELSE "skip"

\* the start state handled without looking at try_visit's answer
StartOutcomeNoVisit(visit, goal) == IF goal THEN "found" ELSE "enqueue"

\* what find_path does with the start state: visit is the answer of
\* try_visit and goal the answer of is_goal, asked only after a true visit
StartOutcome(visit, goal) ==
  IF visit THEN (IF goal THEN "found" ELSE "enqueue") ELSE "skip"

\* the same decision for a neighbor inside the loop
NextOutcome(visit, goal) ==
  IF visit THEN (IF goal THEN "found" ELSE "enqueue") ELSE "skip"

FindPathStart ==
  /\ pc = "start"
  /\ LET s == start_state(prob)
         ns == <<MkNode(s, NoParent)>>
         step(tv, out) ==
           /\ visited' = tv.visited
           /\ vh' = tv.vh
           /\ accepted' = IF tv.ret THEN accepted \cup {s} ELSE accepted
           /\ calls' = IF out = "skip" THEN calls \cup {"try_visit"}
                       ELSE calls \cup {"try_visit", "is_goal"}
           /\ nodes' = IF out = "skip" THEN nodes ELSE ns
           /\ result' = IF out = "found" THEN ResultSome(trace_path(ns, 1)) ELSE result
           /\ queue' = IF out = "enqueue"
                       THEN push_back(queue, [node |-> 1, depth |-> START_DEPTH])
                       ELSE queue
           /\ pc' = IF out = "found" THEN "done" ELSE "loop"
           /\ last' = [op |-> "try_visit", state |-> s, depth |-> START_DEPTH,
                       ret |-> tv.ret]
         visit(tv) == step(tv, StartOutcome(tv.ret, is_goal(prob, s)))
     IN  visit(try_visit(prob, visited, vh, s, START_DEPTH))
  /\ tick' = ~tick
  /\ UNCHANGED <<prob, cur, pending, vhLog, board>>

FindPathDequeue ==
  /\ pc = "loop"
  /\ queue # <<>>
  /\ LET popped == pop_front(queue)
         step(nbrs) ==
           /\ cur' = popped.item
           /\ queue' = popped.rest
           /\ pending' = nbrs
           /\ calls' = calls \cup {"neighbors"}
           /\ pc' = IF nbrs = <<>> THEN "loop" ELSE "for"
     IN  step(neighbors(prob, nodes[popped.item.node].state))
  /\ tick' = ~tick
  /\ UNCHANGED <<prob, nodes, result, visited, vh, accepted, vhLog, board, last>>

FindPathVisit ==
  /\ pc = "for"
  /\ LET next_state == Head(pending)
         next_depth == cur.depth + 1
         ns == Append(nodes, MkNode(next_state, cur.node))
         step(tv, out) ==
           /\ visited' = tv.visited
           /\ vh' = tv.vh
           /\ pending' = Tail(pending)
           /\ accepted' = IF tv.ret THEN accepted \cup {next_state} ELSE accepted
           /\ calls' = IF out = "skip" THEN calls \cup {"try_visit"}
                       ELSE calls \cup {"try_visit", "is_goal"}
           /\ nodes' = IF out = "skip" THEN nodes ELSE ns
           /\ result' = IF out = "found" THEN ResultSome(trace_path(ns, Len(ns)))
                        ELSE result
           /\ queue' = IF out = "enqueue"
                       THEN push_back(queue, [node |-> Len(ns), depth |-> next_depth])
                       ELSE queue
           /\ pc' = IF out = "found" THEN "done"
                    ELSE IF Tail(pending) = <<>> THEN "loop" ELSE "for"
           /\ last' = [op |-> "try_visit", state |-> next_state, depth |-> next_depth,
                       ret |-> tv.ret]
         visit(tv) == step(tv, NextOutcome(tv.ret, is_goal(prob, next_state)))
     IN  visit(try_visit(prob, visited, vh, next_state, next_depth))
  /\ tick' = ~tick
  /\ UNCHANGED <<prob, cur, vhLog, board>>

\* an empty queue polled again instead of ending the search
FindPathNotFoundSpin ==
  /\ pc = "loop"
  /\ queue = <<>>
  /\ tick' = ~tick
  /\ UNCHANGED <<prob, pc, nodes, queue, cur, pending, result, visited, vh, calls,
                 accepted, vhLog, board, last>>

FindPathNotFound ==
  /\ pc = "loop"
  /\ queue = <<>>
  /\ result' = ResultNone
  /\ pc' = "done"
  /\ tick' = ~tick
  /\ UNCHANGED <<prob, nodes, queue, cur, pending, visited, vh, calls, accepted, vhLog,
                 board, last>>

FindPathNext ==
  \/ FindPathStart
  \/ FindPathDequeue
  \/ FindPathVisit
  \/ FindPathNotFound

NoCalls == {}

\* no method has been called directly
NoCall == [op |-> "none"]

FindPathInit ==
  /\ pc = "start"
  /\ nodes = <<>>
  /\ queue = <<>>
  /\ cur = NoCur
  /\ pending = <<>>
  /\ result = ResultNone
  /\ calls = NoCalls
  /\ accepted = {}
  /\ vhLog = <<>>
  /\ tick = FALSE
  /\ board = NoBoard
  /\ last = NoCall

\* find_path takes a step
FindPathStep == pc \in {"start", "loop", "for"} /\ tick' = ~tick

\* find_path runs on one thread, which keeps taking steps until it returns
FindPathFairness == WF_tick(FindPathStep)

(***************************************************************************)
(* find_path over small integer graphs with a HashSet as try_visit, as in  *)
(* the engine's tests.                                                     *)
(***************************************************************************)
MaxNode == 4
MaxEdges == 5

Node == 0..MaxNode

\* edges lead one or two nodes forward or back to the node just before
EdgeSets ==
  {E \in SUBSET {e \in Node \X Node :
                   e[2] = e[1] + 1 \/ e[2] = e[1] + 2 \/ e[2] = e[1] - 1} :
     Cardinality(E) <= MaxEdges}

RECURSIVE Ascending(_)
Ascending(S) ==
  IF S = {} THEN <<>>
  ELSE LET m == CHOOSE x \in S : \A y \in S : x <= y
       IN  <<m>> \o Ascending(S \ {m})

Targets(E, x) == {e[2] : e \in {f \in E : f[1] = x}}

AdjOf(E) == [x \in Node |-> Ascending(Targets(E, x))]

\* seen is what the HashSet holds when find_path is called
GraphProblems ==
  {[kind |-> "graph", start |-> 0, goal |-> g, adj |-> AdjOf(E), seen |-> v] :
     g \in Node, E \in EdgeSets, v \in {{}, {0}}}

GraphInit ==
  /\ FindPathInit
  /\ prob \in GraphProblems
  /\ visited = prob.seen
  /\ vh = VisitedHistoryNew

SpecGraph == GraphInit /\ [][FindPathNext]_vars

SpecGraphFair == SpecGraph /\ FindPathFairness

(***************************************************************************)
(* solve on validated start boards and goal masks                          *)
(***************************************************************************)
StartBoards ==
  { BitPatternNew(\h0440, \h7238, \h7118, \h6115, \h6995),
    BitPatternNew(\h5998, \h1128, \h1107, \h3447, \h3066),
    BitPatternNew(\h2556, \h1136, \h1199, \h4870, \ha870),
    BitPatternNew(\h0011, \h6611, \h9882, \h9774, \h3354) }

\* the 2x2 block of 0xf cells with its top-left cell in row r, column c
GoalMaskAt(r, c) ==
  LET band == CASE c = 0 -> \hff00 [] c = 1 -> \h0ff0 [] c = 2 -> \h00ff
  IN  [i \in 1..SIZE |-> IF i = r + 1 \/ i = r + 2 THEN band ELSE 0]

GoalMasks == {GoalMaskAt(r, c) : r \in 0..3, c \in 0..2}

SolveProblems ==
  {[kind |-> "klotski", rule |-> rule] :
     rule \in UNION {RuleNew(b, g) : b \in StartBoards, g \in GoalMasks}}

SolveInit ==
  /\ FindPathInit
  /\ prob \in SolveProblems
  /\ visited = {}
  /\ vh = VisitedHistoryNew

SpecSolve == SolveInit /\ [][FindPathNext]_vars

SpecSolveFair == SpecSolve /\ FindPathFairness

\* find_path under either set of callbacks
SpecFindPath == (GraphInit \/ SolveInit) /\ [][FindPathNext]_vars

(***************************************************************************)
(* VisitedHistory driven directly by try_visit calls                       *)
(***************************************************************************)
MaxKey == 2
MaxDepth == 3
MaxCalls == 4

VhInit ==
  /\ prob = [kind |-> "history"]
  /\ pc = "history"
  /\ nodes = <<>>
  /\ queue = <<>>
  /\ cur = NoCur
  /\ pending = <<>>
  /\ result = ResultNone
  /\ visited = {}
  /\ calls = NoCalls
  /\ accepted = {}
  /\ vh = VisitedHistoryNew
  /\ vhLog = <<>>
  /\ tick = FALSE
  /\ board = NoBoard
  /\ last = NoCall

VhTryVisit ==
  /\ pc = "history"
  /\ Len(vhLog) < MaxCalls
  /\ \E k \in 1..MaxKey, d \in 0..MaxDepth :
       LET r == VisitedHistoryTryVisit(vh, k, d)
       IN  /\ vh' = r.hist
           /\ vhLog' = Append(vhLog, [key |-> k, depth |-> d, ret |-> r.ret,
                                      before |-> vh, after |-> r.hist])
  /\ UNCHANGED <<prob, pc, nodes, queue, cur, pending, result, visited, calls, accepted,
                 tick, board, last>>

VhNext == VhTryVisit

SpecHistory == VhInit /\ [][VhNext]_vars

(***************************************************************************)
(* Board::move_piece called directly, over and over, from a start board    *)
(***************************************************************************)
PieceIds == 1..15

BoardInit ==
  /\ \E b \in StartBoards :
       /\ prob = [kind |-> "board", start |-> b]
       /\ board = b
  /\ pc = "board"
  /\ nodes = <<>>
  /\ queue = <<>>
  /\ cur = NoCur
  /\ pending = <<>>
  /\ result = ResultNone
  /\ visited = {}
  /\ calls = NoCalls
  /\ accepted = {}
  /\ vh = VisitedHistoryNew
  /\ vhLog = <<>>
  /\ tick = FALSE
  /\ last = NoCall

\* board.move_piece(piece, direction); the caller keeps a returned board
BoardMovePiece ==
  /\ pc = "board"
  /\ \E piece \in PieceIds, direction \in SeqRange(ALL_DIRECTIONS) :
       LET return(ret) ==
             /\ last' = [op |-> "move_piece", self |-> board, piece |-> piece,
                         direction |-> direction, ret |-> ret]
             /\ board' = IF ret = NoBoard THEN board ELSE ret
       IN  return(move_piece(board, piece, direction))
  /\ pc' = "moved"
  /\ UNCHANGED <<prob, nodes, queue, cur, pending, result, visited, vh, calls,
                 accepted, vhLog, tick>>

\* the rules Rule::new builds for a start board and the accepted goal masks
BoardRules(b) == UNION {RuleNew(b, g) : g \in GoalMasks}

\* BoardKey::create(rule, board) for a rule of the start board
BoardKeyCreateCall ==
  /\ pc = "board"
  /\ \E rule \in BoardRules(prob.start) :
       last' = [op |-> "create", rule |-> rule, self |-> board,
                ret |-> BoardKeyCreate(rule, board)]
  /\ pc' = "moved"
  /\ UNCHANGED <<prob, nodes, queue, cur, pending, result, visited, vh, calls,
                 accepted, vhLog, tick, board>>

\* the caller goes on to its next call with the board it holds
BoardContinue ==
  /\ pc = "moved"
  /\ pc' = "board"
  /\ last' = NoCall
  /\ UNCHANGED <<prob, nodes, queue, cur, pending, result, visited, vh, calls,
                 accepted, vhLog, tick, board>>

BoardNext == BoardMovePiece \/ BoardKeyCreateCall \/ BoardContinue

SpecBoard == BoardInit /\ [][BoardNext]_vars

(***************************************************************************)
(* BitPattern methods called directly on a pattern                         *)
(***************************************************************************)
\* a u16 row from its four cells, leftmost first
RowOf(w, x, y, z) == 4096 * w + 256 * x + 16 * y + z

AllCells == 0..15

EdgeCells == {0, 6, 15}

\* every pair of values in the two middle cells
Rows ==
  {RowOf(w, x, y, z) : w \in EdgeCells, x \in AllCells, y \in AllCells, z \in EdgeCells}

RowSamples == {\h2113, \h6009, \hf0a5}

PatternInputs ==
  {BitPatternNew(r, s, r, 0, s) : r \in Rows, s \in RowSamples}
    \cup StartBoards
    \cup {BitPatternNew(\h2113, \h2113, \h4455, \h6789, \h6009),
          BitPatternNew(\h2113, \h2113, \h4556, \h4786, \h900a),
          BitPatternNew(\h2113, \h2113, \h4556, \h7896, \h700a),
          BitPatternNew(\h2113, \h2113, \h4556, \h4897, \h700a),
          BitPatternNew(\h2341, \h1561, \h1700, \h8899, \habcd),
          BitPatternNew(\h2113, \h2113, \h4556, \h4756, \h900a),
          BitPatternNew(\h2113, \h2113, \h4556, \h4776, \h700a),
          BitPatternNew(\h2113, \h2113, \h4556, \h4786, \h9000),
          BitPatternNew(\h2113, \h2213, \h4556, \h4786, \h900a)}

PatternInit ==
  /\ board \in PatternInputs
  /\ prob = [kind |-> "pattern"]
  /\ pc = "pattern"
  /\ nodes = <<>>
  /\ queue = <<>>
  /\ cur = NoCur
  /\ pending = <<>>
  /\ result = ResultNone
  /\ visited = {}
  /\ calls = NoCalls
  /\ accepted = {}
  /\ vh = VisitedHistoryNew
  /\ vhLog = <<>>
  /\ tick = FALSE
  /\ last = NoCall

PatternUnchanged ==
  UNCHANGED <<prob, nodes, queue, cur, pending, result, visited, vh, calls,
              accepted, vhLog, tick, board>>

PatternMaskOf ==
  /\ pc = "pattern"
  /\ \E piece \in PieceIds :
       last' = [op |-> "mask_of", self |-> board, piece |-> piece,
                ret |-> mask_of(board, piece)]
  /\ pc' = "called"
  /\ PatternUnchanged

PatternMirrored ==
  /\ pc = "pattern"
  /\ last' = [op |-> "mirrored", self |-> board, ret |-> mirrored(board)]
  /\ pc' = "called"
  /\ PatternUnchanged

PatternMoved ==
  /\ pc = "pattern"
  /\ \E direction \in SeqRange(ALL_DIRECTIONS) :
       last' = [op |-> "moved", self |-> board, direction |-> direction,
                ret |-> moved(board, direction)]
  /\ pc' = "called"
  /\ PatternUnchanged

\* lists of pairwise disjoint pairs of piece ids
PairLists ==
  { <<>>,
    <<<<2, 3>>>>,
    <<<<10, 1>>>>,
    <<<<6, 15>>, <<1, 7>>>>,
    <<<<2, 3>>, <<4, 5>>>>,
    <<<<2, 3>>, <<4, 5>>, <<6, 9>>, <<7, 8>>>> }

PatternSymmetrized ==
  /\ pc = "pattern"
  /\ \E pairs \in PairLists :
       last' = [op |-> "symmetrized", self |-> board, pairs |-> pairs,
                ret |-> symmetrized(board, pairs)]
  /\ pc' = "called"
  /\ PatternUnchanged

\* the patterns given to Rule::new as start boards: the validated start
\* boards, the boards of the tests, and patterns with up to two ids in the
\* middle cells of the first and third row
RuleStarts ==
  {b \in PatternInputs :
     \/ Nib(b[1], 1) \in {0, 4, 5} /\ Nib(b[1], 2) \in {0, 4, 5}
     \/ b[4] # 0}

\* Rule::new(&Board::from_bitpattern(pattern), goal_mask)
PatternRuleNew ==
  /\ pc = "pattern"
  /\ board \in RuleStarts
  /\ \E goal_mask \in GoalMasks :
       \E rule \in RuleNew(board, goal_mask) :
         last' = [op |-> "new", self |-> board, goal_mask |-> goal_mask, ret |-> rule]
  /\ pc' = "called"
  /\ PatternUnchanged

\* SHAPE_UNUSED, SHAPE_SMALL, SHAPE_HORIZONTAL, SHAPE_VERTICAL, SHAPE_LARGE
SHAPE ==
  [UNUSED |-> BitPatternNew(0, 0, 0, 0, 0),
   SMALL |-> BitPatternNew(0, 0, 0, 0, \h000f),
   HORIZONTAL |-> BitPatternNew(0, 0, 0, 0, \h00ff),
   VERTICAL |-> BitPatternNew(0, 0, 0, \h000f, \h000f),
   LARGE |-> BitPatternNew(0, 0, 0, \h00ff, \h00ff)]

\* piece_mask >> piece_mask.trailing_zeros() on the u128 of the five rows.
\* Every hex digit of a mask is 0 or 0xf, so the shift is by whole digits:
\* digit k of the u128 (0 is the least significant) is cell k % 4 from the
\* right of row SIZE - k / 4, and digits shifted in from above are 0.
piece_shape(bit_pattern, piece_id) ==
  LET digit(mask, k) == IF k > 19 THEN 0 ELSE Nib(mask[SIZE - (k \div 4)], k % 4)
      trailing(mask) ==
        CHOOSE k \in 0..19 :
          digit(mask, k) # 0 /\ \A j \in 0..(k - 1) : digit(mask, j) = 0
      low(i) == 4 * (SIZE - i)
      shifted(mask, n) ==
        [i \in 1..SIZE |->
           RowOf(digit(mask, low(i) + 3 + n), digit(mask, low(i) + 2 + n),
                 digit(mask, low(i) + 1 + n), digit(mask, low(i) + n))]
      shape(piece_mask) ==
        IF is_empty(piece_mask) THEN piece_mask
        ELSE shifted(piece_mask, trailing(piece_mask))
  IN  shape(mask_of(bit_pattern, piece_id))

is_valid_regular_piece_shapes(shape) ==
  shape \in {SHAPE.UNUSED, SHAPE.SMALL, SHAPE.HORIZONTAL, SHAPE.VERTICAL}

count_empty_spaces(bit_pattern) ==
  Cardinality({k \in 0..19 : Nib(bit_pattern[SIZE - (k \div 4)], k % 4) = 0})

\* parse_args_to_rule after both arguments have been read as 20 hex digits;
\* Ok holds any rule that Rule::new can build
parse_args_to_rule(start_image, goal_mask) ==
  IF count_empty_spaces(start_image) # 2
  THEN {[ok |-> FALSE, msg |-> "START_BOARD must have only two empty spaces."]}
  ELSE IF piece_shape(start_image, 1) # SHAPE.LARGE
  THEN {[ok |-> FALSE, msg |-> "START_BOARD must have the #1 large piece."]}
  ELSE IF \E i \in 2..15 : ~is_valid_regular_piece_shapes(piece_shape(start_image, i))
  THEN {[ok |-> FALSE, msg |-> "START_BOARD contains a piece that is not of a legal shape."]}
  ELSE IF count_empty_spaces(goal_mask) # 16
  THEN {[ok |-> FALSE, msg |-> "GOAL_MASK must be a mask that indicates the goal position."]}
  ELSE IF piece_shape(goal_mask, 15) # SHAPE.LARGE
  THEN {[ok |-> FALSE, msg |-> "GOAL_MASK shape is incorrect."]}
  ELSE {[ok |-> TRUE, rule |-> rule] : rule \in RuleNew(start_image, goal_mask)}

\* parse_args_to_rule(start_image, goal_mask), also with goal masks that
\* are no 2x2 block
PatternParseArgs ==
  /\ pc = "pattern"
  /\ board \in RuleStarts
  /\ \E goal_mask \in GoalMasks \cup {BitPatternNew(0, 0, 0, 0, 1),
                                       BitPatternNew(0, 0, \hf000, \hf000, \h00ff)} :
       \E ret \in parse_args_to_rule(board, goal_mask) :
         last' = [op |-> "parse", self |-> board, goal_mask |-> goal_mask, ret |-> ret]
  /\ pc' = "called"
  /\ PatternUnchanged

PatternNext ==
  \/ PatternRuleNew
  \/ PatternParseArgs
  \/ PatternMaskOf
  \/ PatternMirrored
  \/ PatternMoved
  \/ PatternSymmetrized

SpecPattern == PatternInit /\ [][PatternNext]_vars

(***************************************************************************)
(* A caller that walks from the start board of the tests through a fixed   *)
(* list of move_piece calls, keeping the states it goes through            *)
(***************************************************************************)
\* the calls (piece, direction), in the order they are made
WalkMoves ==
  <<<<7, Down>>, <<7, Right>>, <<8, Left>>, <<9, Right>>, <<4, Down>>,
    <<5, Left>>, <<6, Left>>, <<10, Up>>, <<7, Right>>, <<6, Down>>,
    <<5, Right>>, <<5, Right>>, <<8, Up>>, <<8, Left>>, <<9, Up>>,
    <<9, Up>>, <<6, Left>>, <<7, Left>>, <<10, Down>>, <<5, Down>>,
    <<9, Right>>, <<8, Right>>, <<4, Up>>, <<9, Right>>, <<8, Right>>,
    <<6, Up>>, <<7, Left>>, <<7, Left>>, <<10, Left>>, <<10, Left>>,
    <<5, Down>>, <<8, Down>>, <<9, Left>>, <<3, Down>>, <<3, Down>>,
    <<1, Right>>, <<6, Up>>, <<6, Up>>, <<9, Left>>, <<8, Up>>, <<10, Up>>,
    <<10, Right>>, <<9, Down>>, <<9, Down>>, <<4, Right>>, <<2, Down>>,
    <<2, Down>>, <<6, Left>>, <<1, Left>>, <<3, Up>>, <<3, Up>>,
    <<8, Right>>, <<10, Right>>, <<4, Right>>, <<2, Right>>, <<6, Down>>,
    <<6, Down>>, <<1, Left>>, <<4, Up>>, <<4, Up>>, <<2, Right>>,
    <<6, Right>>, <<7, Up>>, <<7, Up>>, <<9, Left>>, <<5, Left>>,
    <<9, Up>>, <<5, Left>>, <<5, Right>>, <<5, Right>>, <<9, Down>>,
    <<7, Down>>, <<9, Right>>, <<7, Down>>, <<6, Left>>, <<2, Left>>,
    <<4, Down>>, <<4, Down>>, <<1, Right>>, <<6, Up>>, <<6, Up>>,
    <<2, Left>>, <<4, Left>>, <<8, Left>>, <<3, Down>>, <<10, Left>>,
    <<3, Down>>, <<1, Right>>, <<6, Right>>, <<2, Up>>, <<2, Up>>,
    <<4, Left>>, <<8, Left>>, <<9, Up>>, <<7, Right>>, <<10, Up>>,
    <<9, Right>>, <<7, Up>>, <<5, Left>>, <<5, Left>>, <<9, Down>>,
    <<7, Right>>, <<8, Down>>, <<10, Left>>, <<7, Up>>, <<9, Up>>,
    <<5, Right>>, <<5, Right>>, <<8, Down>>, <<8, Left>>, <<10, Down>>,
    <<6, Down>>, <<10, Down>>, <<6, Down>>, <<1, Left>>, <<3, Up>>,
    <<3, Up>>, <<7, Right>>, <<9, Right>>, <<6, Right>>, <<4, Right>>,
    <<2, Down>>, <<2, Down>>, <<1, Left>>, <<3, Left>>, <<7, Up>>,
    <<7, Up>>, <<9, Up>>, <<9, Up>>, <<6, Right>>, <<3, Down>>,
    <<3, Down>>, <<1, Right>>, <<2, Up>>, <<2, Up>>, <<4, Left>>,
    <<3, Left>>, <<6, Left>>, <<9, Down>>, <<7, Down>>, <<9, Down>>,
    <<7, Down>>, <<1, Right>>, <<2, Right>>, <<4, Up>>, <<4, Up>>,
    <<3, Left>>, <<2, Down>>, <<2, Down>>, <<4, Right>>, <<3, Up>>,
    <<3, Up>>, <<8, Up>>, <<8, Up>>, <<10, Left>>, <<10, Up>>>>

\* the rule of the start board 0x2113_2113_4556_4786_900a with the goal in
\* the top-left corner
WalkInit ==
  /\ prob \in {[kind |-> "walk", rule |-> rule] :
                 rule \in RuleNew(BitPatternNew(\h2113, \h2113, \h4556, \h4786, \h900a),
                                  GoalMaskAt(0, 0))}
  /\ board = prob.rule.start
  /\ pc = "walk"
  /\ nodes = <<MkNode(start_state(prob), NoParent)>>
  /\ queue = <<>>
  /\ cur = NoCur
  /\ pending = <<>>
  /\ result = ResultNone
  /\ visited = {}
  /\ vh = VisitedHistoryNew
  /\ calls = NoCalls
  /\ accepted = {}
  /\ vhLog = <<>>
  /\ tick = FALSE
  /\ last = NoCall

\* the next call of the list; the walk goes on with the board returned
WalkMovePiece ==
  /\ pc = "walk"
  /\ Len(nodes) <= Len(WalkMoves)
  /\ LET piece == WalkMoves[Len(nodes)][1]
         direction == WalkMoves[Len(nodes)][2]
         step(ret) ==
           /\ ret # NoBoard
           /\ board' = ret
           /\ nodes' = Append(nodes, MkNode(MkState(ret, piece, MovePathOne(direction)),
                                            Len(nodes)))
           /\ last' = [op |-> "move_piece", self |-> board, piece |-> piece,
                       direction |-> direction, ret |-> ret]
     IN  step(move_piece(board, piece, direction))
  /\ UNCHANGED <<prob, pc, queue, cur, pending, result, visited, vh, calls, accepted,
                 vhLog, tick>>

SpecWalk == WalkInit /\ [][WalkMovePiece]_vars

(***************************************************************************)
(* Reference notions for the integer graphs                                *)
(***************************************************************************)
GraphSucc(pr, S) == UNION {SeqRange(pr.adj[x]) : x \in S}

\* number of edges of a shortest walk from frontier to the goal, -1 if none
RECURSIVE GraphDistFrom(_, _, _, _)
GraphDistFrom(pr, frontier, seen, d) ==
  IF pr.goal \in frontier THEN d
  ELSE LET next == GraphSucc(pr, frontier) \ seen
       IN  IF next = {} THEN -1
           ELSE GraphDistFrom(pr, next, seen \cup next, d + 1)

GraphDist(pr) == GraphDistFrom(pr, {pr.start}, {pr.start}, 0)

Done == pc = "done"

GraphRun == prob.kind = "graph"

Linked(pr, path) ==
  \A i \in 1..(Len(path) - 1) : path[i + 1] \in SeqRange(neighbors(pr, path[i]))

(***************************************************************************)
(* C5: with a plain visited set (nothing seen before the call), when a     *)
(* goal is reachable from start the returned path has the minimum number   *)
(* of edges from start to the goal.                                        *)
(***************************************************************************)
C5_ShortestPath ==
  (Done /\ GraphRun /\ prob.seen = {} /\ GraphDist(prob) >= 0)
    => (result.some /\ Len(result.path) - 1 = GraphDist(prob))

\* a goal two edges away that can also be reached by a walk of three edges
C5_Witness ==
  /\ Done /\ GraphRun /\ prob.seen = {}
  /\ prob.adj[0] = <<1, 2>> /\ prob.adj[1] = <<3>>
  /\ prob.adj[2] = <<4>> /\ prob.adj[4] = <<3>> /\ prob.goal = 3
  /\ result = ResultSome(<<0, 1, 3>>)

(***************************************************************************)
(* C8: a returned path begins with start, ends with a goal state, each     *)
(* consecutive pair is linked by neighbors and every state on it was       *)
(* accepted by try_visit.                                                  *)
(***************************************************************************)
C8_PathWellFormed ==
  (Done /\ GraphRun /\ result.some)
    => /\ Len(result.path) >= 1
       /\ result.path[1] = start_state(prob)
       /\ is_goal(prob, result.path[Len(result.path)])
       /\ Linked(prob, result.path)
       /\ SeqRange(result.path) \subseteq accepted

\* a path of three edges found in a graph whose nodes also point backwards
C8_Witness ==
  /\ Done /\ GraphRun /\ result.some /\ Len(result.path) = 4
  /\ \E x \in Node : Len(prob.adj[x]) = 2 /\ prob.adj[x][1] = x - 1

(***************************************************************************)
(* C9: when try_visit(start, 0) returns false, find_path returns None even *)
(* if start is a goal, without calling is_goal or neighbors.               *)
(***************************************************************************)
C9_StartRejected ==
  (Done /\ GraphRun /\ prob.start \in prob.seen)
    => (result = ResultNone /\ calls = {"try_visit"})

C9_Witness ==
  /\ Done /\ GraphRun /\ prob.start \in prob.seen /\ prob.goal = prob.start
  /\ prob.adj[prob.start] # <<>> /\ result = ResultNone

(***************************************************************************)
(* Reference notions for the puzzle                                        *)
(***************************************************************************)
SolveRun == prob.kind = "klotski"

Directions == SeqRange(ALL_DIRECTIONS)

\* the boards one step away: one piece slid by one cell, or by two cells
\* whose second direction is not the reverse of the first
StepBoards(pieces, b) ==
  LET one == {[piece |-> p, dir |-> d, board |-> move_piece(b, p, d)] :
                p \in pieces, d \in Directions}
      ok == {m \in one : m.board # NoBoard}
      two == UNION {{move_piece(m.board, m.piece, d2) :
                       d2 \in Directions \ {reversed(m.dir)}} : m \in ok}
  IN  ({m.board : m \in ok} \cup two) \ {NoBoard}

RECURSIVE KlotskiDistFrom(_, _, _, _)
KlotskiDistFrom(rule, frontier, seen, d) ==
  IF \E b \in frontier : mask_of(b, 1) = rule.goal_mask THEN d
  ELSE LET next == UNION {StepBoards(SeqRange(rule.pieces), b) : b \in frontier} \ seen
       IN  IF next = {} THEN -1
           ELSE KlotskiDistFrom(rule, next, seen \cup next, d + 1)

\* minimum number of steps from rule.start to a finished board, -1 if none
KlotskiDist(rule) == KlotskiDistFrom(rule, {rule.start}, {rule.start}, 0)

GoalIsSymmetric(rule) == rule.goal_mask = mirrored(rule.goal_mask)

\* state s follows state prev by the moves its path names
FollowsBy(prev, s) ==
  /\ s.piece # NoPiece
  /\ Len(s.path) \in {1, 2}
  /\ LET b1 == move_piece(prev.board, s.piece, s.path[1])
     IN  /\ b1 # NoBoard
         /\ IF Len(s.path) = 1 THEN s.board = b1
            ELSE s.board = move_piece(b1, s.piece, s.path[2])

C3_SolvePathValid ==
  (Done /\ SolveRun /\ result.some)
    => /\ result.path[1] = MkState(prob.rule.start, NoPiece, MovePathNone)
       /\ mask_of(result.path[Len(result.path)].board, 1) = prob.rule.goal_mask
       /\ \A i \in 2..Len(result.path) : FollowsBy(result.path[i - 1], result.path[i])

\* a solution that turns a corner within one step
C3_Witness ==
  /\ Done /\ SolveRun /\ result.some
  /\ \E i \in 2..Len(result.path) :
       Len(result.path[i].path) = 2 /\ result.path[i].path[1] # result.path[i].path[2]

(***************************************************************************)
(* C4: solve terminates.                                                   *)
(***************************************************************************)
C4_SolveTerminates == SolveRun ~> Done

\* an exhausted search whose history no longer holds the start board's key
C4_Witness ==
  /\ Done /\ SolveRun /\ result = ResultNone
  /\ vh.depth >= 3
  /\ ~contains(vh, BoardKeyCreate(prob.rule, prob.rule.start))

(***************************************************************************)
(* C6: when the start state is a goal and try_visit accepts it, find_path  *)
(* returns the one-element path [start] without calling neighbors; so does *)
(* solve on a start board whose piece 1 already covers the goal mask.      *)
(***************************************************************************)
StartAccepted ==
  IF GraphRun THEN prob.start \notin prob.seen ELSE TRUE

C6_StartIsGoal ==
  (Done /\ is_goal(prob, start_state(prob)) /\ StartAccepted)
    => (result = ResultSome(<<start_state(prob)>>) /\ "neighbors" \notin calls)

C6_Witness ==
  /\ Done /\ SolveRun
  /\ is_finished(prob.rule, prob.rule.start)
  /\ result = ResultSome(<<MkState(prob.rule.start, NoPiece, MovePathNone)>>)

(***************************************************************************)
(* C7: with a try_visit that accepts each state at most once, when no goal *)
(* is reachable from start the search terminates and returns None.         *)
(***************************************************************************)
C7_UnreachableEnds ==
  (GraphRun /\ GraphDist(prob) < 0) ~> (Done /\ result = ResultNone)

\* an exhausted search over a graph with a cycle
C7_Witness ==
  /\ Done /\ GraphRun /\ GraphDist(prob) < 0 /\ result = ResultNone
  /\ prob.seen = {}
  /\ prob.adj[0] = <<1>> /\ prob.adj[1] = <<0, 2>>

(***************************************************************************)
(* C10: a try_visit at the history's depth that returns true is followed   *)
(* by false for the same key and depth; the first try_visit on a fresh     *)
(* history at depth 0 returns true.                                        *)
(***************************************************************************)
C10_SecondVisitRejected ==
  /\ \A i \in 1..(Len(vhLog) - 1) :
       (/\ vhLog[i].ret
        /\ vhLog[i].depth = vhLog[i].before.depth
        /\ vhLog[i + 1].key = vhLog[i].key
        /\ vhLog[i + 1].depth = vhLog[i].depth)
         => ~vhLog[i + 1].ret
  /\ (Len(vhLog) >= 1 /\ vhLog[1].depth = 0) => vhLog[1].ret

\* accepted then rejected at a depth reached after the history had rotated
C10_Witness ==
  \E i \in 2..(Len(vhLog) - 1) :
    /\ vhLog[i].ret /\ ~vhLog[i + 1].ret
    /\ vhLog[i].depth = vhLog[i].before.depth
    /\ vhLog[i].depth > 0
    /\ vhLog[i + 1].key = vhLog[i].key
    /\ vhLog[i + 1].depth = vhLog[i].depth
    /\ vhLog[i].before.previous # {}

(***************************************************************************)
(* Sequences of try_visit calls                                            *)
(***************************************************************************)
\* the depths of the calls i..j never fall
NonDecreasing(i, j) ==
  \A n \in i..(j - 1) : vhLog[n].depth <= vhLog[n + 1].depth

\* the depths of the calls i..j never fall and never rise by more than one
LevelByLevel(i, j) ==
  \A n \in i..(j - 1) :
    vhLog[n + 1].depth \in {vhLog[n].depth, vhLog[n].depth + 1}

\* call j is the first after call i with i's key at depth >= i's depth + 3
FirstBeyondWindow(i, j) ==
  /\ i < j
  /\ vhLog[j].key = vhLog[i].key
  /\ vhLog[j].depth >= vhLog[i].depth + 3
  /\ \A n \in (i + 1)..(j - 1) :
       ~(vhLog[n].key = vhLog[i].key /\ vhLog[n].depth >= vhLog[i].depth + 3)

\* call j comes after call i with i's key at i's depth, or one or two deeper
WithinWindow(i, j) ==
  /\ i < j
  /\ vhLog[j].key = vhLog[i].key
  /\ vhLog[j].depth \in vhLog[i].depth..(vhLog[i].depth + 2)

Calls == 1..Len(vhLog)

(***************************************************************************)
(* C11: in a sequence of try_visit calls with non-decreasing depths, a key *)
(* accepted at depth d is rejected by every later call with that key at    *)
(* depth d, d+1 or d+2 and accepted again by the first later call with     *)
(* that key at a depth >= d+3.                                             *)
(***************************************************************************)
\* as claimed, for every non-decreasing sequence
C11_Original ==
  NonDecreasing(1, Len(vhLog)) =>
    \A i, j \in Calls :
      vhLog[i].ret =>
        /\ WithinWindow(i, j) => ~vhLog[j].ret
        /\ FirstBeyondWindow(i, j) => vhLog[j].ret

\* amended: the re-acceptance needs the depths to rise one level at a time
C11_WindowOfThree ==
  /\ NonDecreasing(1, Len(vhLog)) =>
       \A i, j \in Calls :
         (vhLog[i].ret /\ WithinWindow(i, j)) => ~vhLog[j].ret
  /\ \A i, j \in Calls :
       (vhLog[i].ret /\ FirstBeyondWindow(i, j) /\ LevelByLevel(i, j))
         => vhLog[j].ret

\* a key accepted, rejected two levels deeper and accepted three levels deeper
C11_Witness ==
  /\ Len(vhLog) = 4
  /\ LevelByLevel(1, 4)
  /\ vhLog[1].ret /\ vhLog[4].ret
  /\ WithinWindow(1, 3) /\ vhLog[3].depth = vhLog[1].depth + 2 /\ ~vhLog[3].ret
  /\ FirstBeyondWindow(1, 4)

(***************************************************************************)
(* C12: on a fresh history, try_visit(k, 0) directly followed by           *)
(* try_visit(k, 3) returns true and then true.                             *)
(***************************************************************************)
JumpToThree ==
  /\ Len(vhLog) >= 2
  /\ vhLog[1].depth = 0 /\ vhLog[2].depth = 3
  /\ vhLog[2].key = vhLog[1].key

\* as claimed
C12_Original == JumpToThree => (vhLog[1].ret /\ vhLog[2].ret)

\* amended: the jump rotates once, so the second call is rejected; the key
\* is forgotten when depths 1, 2 and 3 are each called in turn
C12_EvictedAfterThreeRotations ==
  /\ JumpToThree => (vhLog[1].ret /\ ~vhLog[2].ret)
  /\ (/\ Len(vhLog) >= 4
      /\ \A n \in 1..4 : vhLog[n].key = vhLog[1].key /\ vhLog[n].depth = n - 1)
       => (vhLog[1].ret /\ ~vhLog[2].ret /\ ~vhLog[3].ret /\ vhLog[4].ret)

\* the jump made, with the key still held in previous afterwards
C12_Witness ==
  /\ JumpToThree /\ Len(vhLog) = 2
  /\ vhLog[2].key \in vh.previous
  /\ vh.depth = 3

(***************************************************************************)
(* C13: a try_visit call whose depth is lower than the depth of the        *)
(* previous call does not complete with an answer and does not rotate or   *)
(* modify the three sets.                                                  *)
(***************************************************************************)
Sets(h) == <<h.current, h.previous, h.pre_previous>>

Decreasing(n) == n >= 2 /\ vhLog[n].depth < vhLog[n - 1].depth

\* as claimed: the sets are as they were before the call
C13_Original ==
  \A n \in Calls : Decreasing(n) => Sets(vhLog[n].after) = Sets(vhLog[n].before)

\* amended: the call completes as any call at a new depth does, rotating
\* once and answering by membership in the rotated sets
C13_DecreasingDepthRotates ==
  \A n \in Calls :
    Decreasing(n) =>
      LET b == vhLog[n].before
          a == vhLog[n].after
          k == vhLog[n].key
      IN  /\ a.depth = vhLog[n].depth
          /\ a.pre_previous = b.previous
          /\ a.previous = b.current
          /\ vhLog[n].ret = (k \notin b.current /\ k \notin b.previous)
          /\ a.current = IF vhLog[n].ret THEN {k} ELSE {}

\* a call at a lower depth that moved a key from current to previous
C13_Witness ==
  \E n \in Calls :
    /\ Decreasing(n)
    /\ vhLog[n].before.current # {}
    /\ vhLog[n].after.previous = vhLog[n].before.current
    /\ vhLog[n].ret

(***************************************************************************)
(* The board cell by cell                                                  *)
(***************************************************************************)
RowIds == 1..SIZE

ColumnIds == 1..4

Cells == RowIds \X ColumnIds

\* the content of the cell in row r (1 is the top) and column c (1 is the left)
CellAt(p, r, c) == Nib(p[r], 4 - c)

CellsOf(p, id) == {rc \in Cells : CellAt(p, rc[1], rc[2]) = id}

Delta(direction) ==
  CASE direction = Up -> <<-1, 0>>
    [] direction = Down -> <<1, 0>>
    [] direction = Left -> <<0, -1>>
    [] direction = Right -> <<0, 1>>

\* the cell next to rc in the direction, on the board or not
Toward(rc, direction) ==
  <<rc[1] + Delta(direction)[1], rc[2] + Delta(direction)[2]>>

\* the cell whose content arrives in rc when everything moves in the direction
From(rc, direction) ==
  <<rc[1] - Delta(direction)[1], rc[2] - Delta(direction)[2]>>

WellFormed(p) == Len(p) = SIZE /\ \A r \in RowIds : p[r] \in 0..65535

MovePieceCalled == last.op = "move_piece"

(***************************************************************************)
(* C14: move_piece returns None for every direction when the piece id does *)
(* not occur on the board.                                                 *)
(***************************************************************************)
C14_AbsentPieceNone ==
  (MovePieceCalled /\ CellsOf(last.self, last.piece) = {})
    => last.ret = NoBoard

(***************************************************************************)
(* C15: for a legal board and a piece on it, move_piece returns None when  *)
(* a cell of the piece is on the edge in the direction or a cell it would  *)
(* enter holds another piece; otherwise the board with exactly the piece's *)
(* cells moved one cell in the direction and every other cell unchanged.   *)
(***************************************************************************)
Stopped(p, id, direction) ==
  \E rc \in CellsOf(p, id) :
    \/ Toward(rc, direction) \notin Cells
    \/ CellAt(p, Toward(rc, direction)[1], Toward(rc, direction)[2]) \notin {0, id}

Slid(p, id, direction, q) ==
  /\ WellFormed(q)
  /\ \A rc \in Cells :
       CellAt(q, rc[1], rc[2]) =
         IF From(rc, direction) \in CellsOf(p, id) THEN id
         ELSE IF rc \in CellsOf(p, id) THEN 0
         ELSE CellAt(p, rc[1], rc[2])

C15_MovePiece ==
  (MovePieceCalled /\ CellsOf(last.self, last.piece) # {})
    => IF Stopped(last.self, last.piece, last.direction)
       THEN last.ret = NoBoard
       ELSE /\ last.ret # NoBoard
            /\ Slid(last.self, last.piece, last.direction, last.ret)

\* a two-cell piece slid sideways next to other pieces
C15_Witness ==
  /\ MovePieceCalled
  /\ last.ret # NoBoard
  /\ Cardinality(CellsOf(last.self, last.piece)) = 2
  /\ last.direction = Left
  /\ last.self # prob.start

(***************************************************************************)
(* C16: when b.move_piece(p, d) returns Some(b'), b'.move_piece(p,         *)
(* d.reversed()) returns Some(b).                                          *)
(***************************************************************************)
C16_MoveBack ==
  (MovePieceCalled /\ last.ret # NoBoard)
    => move_piece(last.ret, last.piece, reversed(last.direction)) = last.self

\* the large piece moved
C16_Witness ==
  /\ MovePieceCalled
  /\ last.ret # NoBoard
  /\ last.piece = 1
  /\ last.ret # last.self

(***************************************************************************)
(* C17: every board reached from a legal start board by successful         *)
(* move_piece calls is legal: each piece id keeps its number of cells and  *)
(* its rectangular shape, the set of ids is unchanged, two cells are empty *)
(* and the cells of all pieces plus the empty cells are 20.                *)
(***************************************************************************)
MinOf(S) == CHOOSE x \in S : \A y \in S : x <= y

MaxOf(S) == CHOOSE x \in S : \A y \in S : x >= y

\* the cells of the piece relative to its top-left corner
ShapeOf(p, id) ==
  LET shifted(cs, top, left) == {<<rc[1] - top, rc[2] - left>> : rc \in cs}
      shape(cs) ==
        IF cs = {} THEN {}
        ELSE shifted(cs, MinOf({rc[1] : rc \in cs}), MinOf({rc[2] : rc \in cs}))
  IN  shape(CellsOf(p, id))

Rectangular(shape) ==
  shape = {} \/
    shape = (0..MaxOf({x[1] : x \in shape})) \X (0..MaxOf({x[2] : x \in shape}))

RECURSIVE CellCountFrom(_, _)
CellCountFrom(p, id) ==
  IF id > 15 THEN 0
  ELSE Cardinality(CellsOf(p, id)) + CellCountFrom(p, id + 1)

SameShape(shape, p, id) == shape = ShapeOf(p, id) /\ Rectangular(shape)

C17_ReachableBoardsLegal ==
  pc \in {"board", "moved"} =>
    /\ WellFormed(board)
    /\ \A id \in PieceIds : SameShape(ShapeOf(board, id), prob.start, id)
    /\ Cardinality(CellsOf(board, 0)) = 2
    /\ CellCountFrom(board, 1) + Cardinality(CellsOf(board, 0)) = 20

\* a board in which the large piece has left its cells of the start board
C17_Witness ==
  /\ pc = "moved"
  /\ MovePieceCalled
  /\ CellsOf(board, 1) # CellsOf(prob.start, 1)
  /\ CellsOf(board, 0) # CellsOf(prob.start, 0)

(***************************************************************************)
(* C18: for every pattern and every piece id in 1..15, mask_of(piece) has  *)
(* 0xf in exactly the cells that hold the id and 0 in all other cells, so  *)
(* it is empty when the id is absent and the masks of two different ids    *)
(* never overlap.                                                          *)
(***************************************************************************)
MaskOfCalled == last.op = "mask_of"

C18_MaskOf ==
  MaskOfCalled =>
    /\ WellFormed(last.ret)
    /\ \A rc \in Cells :
         CellAt(last.ret, rc[1], rc[2]) =
           IF CellAt(last.self, rc[1], rc[2]) = last.piece THEN 15 ELSE 0
    /\ CellsOf(last.self, last.piece) = {} => is_empty(last.ret)
    /\ \A other \in {id \in PieceIds : id > last.piece} :
         is_empty(BitAnd(last.ret, mask_of(last.self, other)))

\* the id is on the pattern next to an id one bit away from it
C18_Witness ==
  /\ MaskOfCalled
  /\ last.piece = 6
  /\ \E rc \in CellsOf(last.self, 6) :
       rc[2] > 1 /\ CellAt(last.self, rc[1], rc[2] - 1) = 7
  /\ is_not_empty(last.ret)

(***************************************************************************)
(* C19: mirrored() reverses the order of the four cells within each of the *)
(* five rows and keeps the order of the rows, so mirrored().mirrored() is  *)
(* the original pattern.                                                   *)
(***************************************************************************)
MirroredCalled == last.op = "mirrored"

C19_Mirrored ==
  MirroredCalled =>
    /\ WellFormed(last.ret)
    /\ \A rc \in Cells :
         CellAt(last.ret, rc[1], rc[2]) = CellAt(last.self, rc[1], 5 - rc[2])
    /\ mirrored(last.ret) = last.self

\* a row of four different cells mirrored
C19_Witness ==
  /\ MirroredCalled
  /\ Cardinality({CellAt(last.self, 4, c) : c \in ColumnIds}) = 4
  /\ last.ret # last.self

(***************************************************************************)
(* C20: moved(dir) puts the content of each cell into the adjacent cell in *)
(* the direction, drops what would leave the board, fills vacated cells    *)
(* with 0 and carries nothing across a row boundary for Left and Right;    *)
(* 0x2113_2113_4455_6789_6009 moved Up is 0x2113_4455_6789_6009_0000 and   *)
(* moved Left is 0x1130_1130_4550_7890_0090.                               *)
(***************************************************************************)
MovedCalled == last.op = "moved"

MovedExample == BitPatternNew(\h2113, \h2113, \h4455, \h6789, \h6009)

C20_Moved ==
  MovedCalled =>
    /\ WellFormed(last.ret)
    /\ \A rc \in Cells :
         CellAt(last.ret, rc[1], rc[2]) =
           IF From(rc, last.direction) \in Cells
           THEN CellAt(last.self, From(rc, last.direction)[1], From(rc, last.direction)[2])
           ELSE 0
    /\ (last.self = MovedExample /\ last.direction = Up)
         => last.ret = BitPatternNew(\h2113, \h4455, \h6789, \h6009, \h0000)
    /\ (last.self = MovedExample /\ last.direction = Left)
         => last.ret = BitPatternNew(\h1130, \h1130, \h4550, \h7890, \h0090)

\* the example moved left: the leftmost cell of every row is dropped
C20_Witness ==
  /\ MovedCalled
  /\ last.self = MovedExample
  /\ last.direction = Left
  /\ \A r \in RowIds : CellAt(last.self, r, 1) # 0 /\ CellAt(last.ret, r, 4) = 0

(***************************************************************************)
(* C21: for every pattern and every list of pairwise disjoint pairs (a, b) *)
(* symmetrized(pairs) turns every a-cell into b and every b-cell into a,   *)
(* leaves all other cells, empty cells included, unchanged, and applied    *)
(* twice restores the pattern.                                             *)
(***************************************************************************)
SymmetrizedCalled == last.op = "symmetrized"

\* what a cell holding id becomes under the pairs
Swapped(pairs, id) ==
  IF \E k \in 1..Len(pairs) : pairs[k][1] = id
  THEN pairs[CHOOSE k \in 1..Len(pairs) : pairs[k][1] = id][2]
  ELSE IF \E k \in 1..Len(pairs) : pairs[k][2] = id
  THEN pairs[CHOOSE k \in 1..Len(pairs) : pairs[k][2] = id][1]
  ELSE id

C21_Symmetrized ==
  SymmetrizedCalled =>
    /\ WellFormed(last.ret)
    /\ \A rc \in Cells :
         CellAt(last.ret, rc[1], rc[2]) =
           Swapped(last.pairs, CellAt(last.self, rc[1], rc[2]))
    /\ symmetrized(last.ret, last.pairs) = last.self

\* two pairs swapped on a pattern holding both ids of each and other ids
C21_Witness ==
  /\ SymmetrizedCalled
  /\ Len(last.pairs) >= 2
  /\ \A k \in 1..2 :
       /\ CellsOf(last.self, last.pairs[k][1]) # {}
       /\ CellsOf(last.self, last.pairs[k][2]) # {}
  /\ CellsOf(last.self, 0) # {}
  /\ CellsOf(last.self, 1) # {}
  /\ last.ret # last.self

(***************************************************************************)
(* C22: for every rule and every board b reachable under it,               *)
(* BoardKey::create(rule, b) equals BoardKey::create(rule, mirrored(b))    *)
(* and, when rule.pairs is not empty, BoardKey::create(rule,               *)
(* symmetrized(b, rule.pairs)); the key is the numerically smallest of b,  *)
(* mirrored(b), symmetrized(b) and mirrored(symmetrized(b)).               *)
(***************************************************************************)
CreateCalled == last.op = "create"

\* a < b as 80-bit numbers, the top row being the most significant
NumericLess(a, b) ==
  \E i \in RowIds : a[i] < b[i] /\ \A j \in 1..(i - 1) : a[j] = b[j]

FourImages(rule, b) ==
  {b, mirrored(b), symmetrized(b, rule.pairs), mirrored(symmetrized(b, rule.pairs))}

C22_KeyOfImages ==
  CreateCalled =>
    /\ last.ret = BoardKeyCreate(last.rule, mirrored(last.self))
    /\ last.rule.pairs # <<>>
         => last.ret = BoardKeyCreate(last.rule, symmetrized(last.self, last.rule.pairs))
    /\ last.ret \in FourImages(last.rule, last.self)
    /\ \A x \in FourImages(last.rule, last.self) : ~NumericLess(x, last.ret)

\* a moved board with four different images whose key is a symmetrized one
C22_Witness ==
  /\ CreateCalled
  /\ last.rule.pairs # <<>>
  /\ last.self # prob.start
  /\ Cardinality(FourImages(last.rule, last.self)) = 4
  /\ last.ret \notin {last.self, mirrored(last.self)}

(***************************************************************************)
(* C23: Rule::new leaves pairs empty if goal_mask differs from its mirror  *)
(* image or some piece's start mask is not the mirror image of any piece's *)
(* start mask; otherwise pairs is exactly the set of (p, q) with p < q     *)
(* such that q's start mask is the mirror image of p's, so each piece is   *)
(* in at most one pair and self-mirrored pieces are in none; the start     *)
(* board 0x2113_2113_4556_4786_900a gives (2,3), (4,6), (7,8), (9,10).     *)
(***************************************************************************)
MirrorCells(S) == {<<rc[1], 5 - rc[2]>> : rc \in S}

\* the pairs as the claim describes them, from the cells of the start board
MirrorPairs(start, goal_mask) ==
  LET present == {p \in PieceIds : CellsOf(start, p) # {}}
      goal_symmetric ==
        \A rc \in Cells : CellAt(goal_mask, rc[1], rc[2]) = CellAt(goal_mask, rc[1], 5 - rc[2])
      all_mirrored ==
        \A p \in present : \E q \in present : CellsOf(start, p) = MirrorCells(CellsOf(start, q))
  IN  IF goal_symmetric /\ all_mirrored
      THEN {pq \in present \X present :
              pq[1] < pq[2] /\ CellsOf(start, pq[2]) = MirrorCells(CellsOf(start, pq[1]))}
      ELSE {}

C23_Pairs ==
  last.op = "new" =>
    /\ SeqRange(last.ret.pairs) = MirrorPairs(last.self, last.goal_mask)
    /\ Len(last.ret.pairs) = Cardinality(MirrorPairs(last.self, last.goal_mask))
    /\ \A i, j \in 1..Len(last.ret.pairs) :
         i # j => {last.ret.pairs[i][1], last.ret.pairs[i][2]}
                    \cap {last.ret.pairs[j][1], last.ret.pairs[j][2]} = {}
    /\ \A i \in 1..Len(last.ret.pairs) :
         \A k \in 1..2 :
           CellsOf(last.self, last.ret.pairs[i][k])
             # MirrorCells(CellsOf(last.self, last.ret.pairs[i][k]))
    /\ (/\ last.self = BitPatternNew(\h2113, \h2113, \h4556, \h4786, \h900a)
        /\ last.goal_mask = GoalMaskAt(3, 1))
         => SeqRange(last.ret.pairs) = {<<2, 3>>, <<4, 6>>, <<7, 8>>, <<9, 10>>}

\* the start board of the claim with the goal at the bottom centre
C23_Witness ==
  /\ last.op = "new"
  /\ last.self = BitPatternNew(\h2113, \h2113, \h4556, \h4786, \h900a)
  /\ last.goal_mask = GoalMaskAt(3, 1)
  /\ Len(last.ret.pairs) = 4
  /\ CellsOf(last.self, 5) = MirrorCells(CellsOf(last.self, 5))

(***************************************************************************)
(* The order of rule.pairs                                                 *)
(***************************************************************************)
\* C24: the order in which create_pairs emits the pairs has no effect.  The
\* searches run under every ordering of the pairs, and each of them agrees
\* at every step with the search under the ordering by ascending first id:
\* BoardKey::create gives the same key for the start board and for every
\* neighbor the search comes to visit, and the answer and the effect of
\* try_visit, the answer of is_goal and the list of get_neighbors are the
\* same.  So any two orderings give the same keys, the same steps and the
\* same result.
C24_PairOrderIrrelevant ==
  SolveRun =>
    LET ascending ==
          CHOOSE o \in Orderings(SeqRange(prob.rule.pairs)) :
            \A i, j \in 1..Len(o) : i < j => o[i][1] < o[j][1]
        rule2 == [prob.rule EXCEPT !.pairs = ascending]
        prob2 == [prob EXCEPT !.rule = rule2]
        same(a, b) == a = b
        same_visit(s, depth) ==
          /\ same(BoardKeyCreate(rule2, s.board), BoardKeyCreate(prob.rule, s.board))
          /\ same(try_visit(prob2, visited, vh, s, depth),
                  try_visit(prob, visited, vh, s, depth))
          /\ is_goal(prob2, s) = is_goal(prob, s)
    IN  /\ start_state(prob2) = start_state(prob)
        /\ pc = "start" => same_visit(start_state(prob), START_DEPTH)
        /\ (pc = "loop" /\ queue # <<>> /\ rule2 # prob.rule) =>
              same(neighbors(prob2, nodes[Head(queue).node].state),
                   neighbors(prob, nodes[Head(queue).node].state))
        /\ pc = "for" => same_visit(Head(pending), cur.depth + 1)

\* a search under a rule with more than one ordering has returned a path on
\* which a board has the symmetrized image or its mirror image as its key
C24_Witness ==
  /\ SolveRun
  /\ Len(prob.rule.pairs) >= 2
  /\ prob.rule.pairs[1][1] > prob.rule.pairs[2][1]
  /\ pc = "done"
  /\ result.some
  /\ \E i \in 1..Len(result.path) :
        LET b == result.path[i].board
        IN  BoardKeyCreate(prob.rule, b) \notin {b, mirrored(b)}

(***************************************************************************)
(* get_neighbors                                                           *)
(***************************************************************************)
\* C25: the list get_neighbors returns for the state at the head of the queue is
\* exactly the list of the moves (piece, direction) and (piece, direction,
\* second direction) that succeed, pieces in the order of rule.pieces, which
\* is ascending, without the piece of the last move, directions in the order Up, Down, Left, Right, a single
\* move before the double moves that begin with it, and second directions
\* in the same order without the reverse of the first.
C25_Neighbors ==
  (SolveRun /\ pc = "loop" /\ queue # <<>>) =>
    LET s == nodes[Head(queue).node].state
        pieces == prob.rule.pieces
        order == <<"Up", "Down", "Left", "Right">>
        back == [d \in {"Up", "Down", "Left", "Right"} |->
                   CASE d = "Up" -> "Down" [] d = "Down" -> "Up"
                     [] d = "Left" -> "Right" [] d = "Right" -> "Left"]
        \* first move m: a piece and a direction, pieces first
        pieceOf(m) == pieces[(m \div 4) + 1]
        dirOf(m) == order[(m % 4) + 1]
        once(m) == move_piece(s.board, pieceOf(m), dirOf(m))
        first(m) == pieceOf(m) # s.piece /\ once(m) # NoBoard
        \* the list built on the first moves that succeed: candidate n is a
        \* first move followed by none (0) or by a second direction (1..4)
        built(firsts) ==
          LET firstOf(n) == firsts[(n \div 5) + 1]
              secondOf(n) == n % 5
              twice(n) == move_piece(once(firstOf(n)), pieceOf(firstOf(n)),
                                     order[secondOf(n)])
              made(n) ==
                secondOf(n) # 0 =>
                  /\ order[secondOf(n)] # back[dirOf(firstOf(n))]
                  /\ twice(n) # NoBoard
              stateOf(n) ==
                IF secondOf(n) = 0
                THEN [board |-> once(firstOf(n)), piece |-> pieceOf(firstOf(n)),
                      path |-> <<dirOf(firstOf(n))>>]
                ELSE [board |-> twice(n), piece |-> pieceOf(firstOf(n)),
                      path |-> <<dirOf(firstOf(n)), order[secondOf(n)]>>]
              listed(kept) == [i \in 1..Len(kept) |-> stateOf(kept[i])]
          IN  listed(SelectSeq([i \in 1..(5 * Len(firsts)) |-> i - 1], made))
        same(returned) ==
          /\ returned = built(SelectSeq([i \in 1..(4 * Len(pieces)) |-> i - 1], first))
          /\ \A i \in 1..Len(returned) : returned[i].piece # s.piece
    IN  /\ \A i, j \in 1..Len(pieces) : i < j => pieces[i] < pieces[j]
        /\ same(get_neighbors(prob.rule, s))

\* the state at the head of the queue was reached by a move, and its list
\* holds a single move followed by a double move of the same piece, and
\* moves of two pieces
C25_Witness ==
  /\ SolveRun
  /\ pc = "loop"
  /\ queue # <<>>
  /\ nodes[Head(queue).node].state.piece # NoPiece
  /\ LET holds(returned) ==
            /\ \E i \in 1..(Len(returned) - 1) :
                  /\ Len(returned[i].path) = 1
                  /\ Len(returned[i + 1].path) = 2
                  /\ returned[i + 1].piece = returned[i].piece
            /\ \E i, j \in 1..Len(returned) : returned[i].piece < returned[j].piece
     IN  holds(get_neighbors(prob.rule, nodes[Head(queue).node].state))

(***************************************************************************)
(* parse_args_to_rule                                                      *)
(***************************************************************************)
\* C26: parse_args_to_rule returns Ok only for legal boards: the board has
\* exactly two empty cells, the cells of id 1 form a 2x2 block, and the cells
\* of every id in 2..15 are absent, a single cell, two cells side by side in
\* one row or two cells one above the other in one column.
C26_OnlyLegalAccepted ==
  (last.op = "parse" /\ last.ret.ok) =>
    /\ Cardinality(CellsOf(last.self, 0)) = 2
    /\ ShapeOf(last.self, 1) = (0..1) \X (0..1)
    /\ \A id \in 2..15 :
         ShapeOf(last.self, id) \in
           {{}, {<<0, 0>>}, {<<0, 0>>, <<0, 1>>}, {<<0, 0>>, <<1, 0>>}}

(***************************************************************************)
(* The depths find_path hands to try_visit                                 *)
(***************************************************************************)
\* C27: during a run of find_path the first try_visit call has depth 0, and
\* the depth of every later call is the depth of the call before it or one
\* more; the depths stored in the queue never decrease from head to tail and
\* the last is at most one more than the first.
C27_DepthsStepByOne ==
  /\ [](\A i, j \in 1..Len(queue) :
          i < j => queue[j].depth - queue[i].depth \in {0, 1})
  /\ [][(pc \in {"start", "for"}) =>
          /\ last'.op = "try_visit"
          /\ IF last.op = "try_visit"
             THEN last'.depth \in {last.depth, last.depth + 1}
             ELSE last'.depth = 0]_vars

\* try_visit has been called with depth 3 and the queue holds two depths
C27_Witness ==
  /\ last.op = "try_visit"
  /\ last.depth = 3
  /\ queue # <<>>
  /\ queue[1].depth < queue[Len(queue)].depth

(***************************************************************************)
(* The window of three generations during solve                            *)
(***************************************************************************)
\* C28: during solve no BoardKey is accepted twice: a neighbor that
\* try_visit accepts has the key of none of the boards accepted before (the
\* boards of the nodes), so a neighbor whose key was accepted before is
\* rejected; and when the search has returned, all the boards it accepted
\* have pairwise different keys.
C28_NoKeyAcceptedTwice ==
  SolveRun =>
    LET keyOf(b) == BoardKeyCreate(prob.rule, b)
        keys == {keyOf(nodes[i].state.board) : i \in 1..Len(nodes)}
    IN  /\ (pc = "for"
               /\ try_visit(prob, visited, vh, Head(pending), cur.depth + 1).ret)
             => keyOf(Head(pending).board) \notin keys
        /\ pc = "done" => Cardinality(keys) = Len(nodes)

\* the window has forgotten the key of an accepted board, and the neighbor
\* about to be visited has a key accepted two levels before its own depth
C28_Witness ==
  /\ SolveRun
  /\ pc = "for"
  /\ vh.depth = cur.depth + 1
  /\ BoardKeyCreate(prob.rule, Head(pending).board) \in vh.pre_previous
  /\ \E i \in 1..Len(nodes) :
        ~contains(vh, BoardKeyCreate(prob.rule, nodes[i].state.board))

(***************************************************************************)
(* Keys and finished boards                                                *)
(***************************************************************************)
\* C29: canonical keys never merge a finished board with an unfinished one:
\* any two boards reached from rule.start that have the same key are both
\* finished or both unfinished, also under a goal mask that is not
\* mirror-symmetric.
C29_KeysKeepFinished ==
  prob.kind = "walk" =>
    LET together(reached) ==
          \A x, y \in reached : x.key = y.key => x.finished = y.finished
    IN  together({[key |-> BoardKeyCreate(prob.rule, nodes[i].state.board),
                   finished |-> is_finished(prob.rule, nodes[i].state.board)] :
                     i \in 1..Len(nodes)})

(***************************************************************************)
(* The effect of one try_visit call on the history                         *)
(***************************************************************************)
\* C30: a try_visit call whose depth differs from the stored depth, whether
\* it is higher by one, higher by more or lower, rotates exactly once
\* (pre_previous takes previous, previous takes current, current is emptied
\* and then holds at most the key of the call) and stores the depth; a call
\* at the stored depth does not rotate, and when it returns false the three
\* sets and the stored depth are as before.
C30_RotatesOncePerNewDepth ==
  \A n \in 1..Len(vhLog) :
    LET b == vhLog[n].before
        a == vhLog[n].after
        k == vhLog[n].key
        ret == vhLog[n].ret
    IN  /\ a.depth = vhLog[n].depth
        /\ vhLog[n].depth # b.depth =>
             /\ a.pre_previous = b.previous
             /\ a.previous = b.current
             /\ a.current = (IF ret THEN {k} ELSE {})
        /\ vhLog[n].depth = b.depth =>
             /\ a.pre_previous = b.pre_previous
             /\ a.previous = b.previous
             /\ a.current = (IF ret THEN b.current \cup {k} ELSE b.current)
        /\ (vhLog[n].depth = b.depth /\ ~ret) => a = b

\* four calls: a key accepted, rejected at the same depth with nothing
\* changed, a call two levels higher that moves it to previous, and a call
\* at a lower depth that moves it to pre_previous
C30_Witness ==
  /\ Len(vhLog) = 4
  /\ vhLog[1].ret
  /\ vhLog[2].depth = vhLog[1].depth /\ ~vhLog[2].ret /\ vhLog[2].after = vhLog[2].before
  /\ vhLog[3].depth > vhLog[2].depth + 1
  /\ vhLog[3].after.previous = vhLog[3].before.current
  /\ vhLog[3].before.current # {}
  /\ vhLog[4].depth < vhLog[3].depth
  /\ vhLog[4].after.pre_previous = vhLog[4].before.previous
  /\ vhLog[4].before.previous # {}

====
